---- MODULE Spec2Model ----
(***************************************************************************)
(* Model of the terminal spinner of gcp-free.py (class Spinner, the        *)
(* _instances registry and the atexit hook _restore_all) together with the *)
(* caller that drives it.  One main thread issues the calls; every         *)
(* started spinner owns one daemon animation thread running _loop.         *)
(* The output stream of a spinner is the sequence of tokens written to it: *)
(* one token per character, the ANSI sequences and the summary message     *)
(* being single tokens.                                                    *)
(***************************************************************************)
EXTENDS Integers, Sequences, FiniteSets, TLC

\* ---------------------------------------------------------------- bounds
MaxCalls == 2
MaxFrames == 2

\* ------------------------------------------------------------- constants
Spinners == {"sp1", "sp2"}

HIDE_CURSOR == "\\x1b[?25l"
SHOW_CURSOR == "\\x1b[?25h"
CR == "\r"
NL == "\n"
SPACE == " "
_GREEN == "\\033[92m"
_RED == "\\033[91m"
_RESET == "\\033[0m"
CHECK_MARK == "check"
CROSS_MARK == "cross"

_SPINNERS ==
  [dots |-> << <<"d0">>, <<"d1">>, <<"d2">>, <<"d3">>, <<"d4">>,
               <<"d5">>, <<"d6">>, <<"d7">>, <<"d8">>, <<"d9">> >>,
   line |-> << <<"-">>, <<"\\">>, <<"|">>, <<"/">> >>,
   triangle |-> << <<"t0">>, <<"t1">>, <<"t2">>, <<"t3">> >>,
   arrow |-> << <<"a0">>, <<"a1">>, <<"a2">>, <<"a3">>,
                <<"a4">>, <<"a5">>, <<"a6">>, <<"a7">> >>]

\* The values given to the constructor: the label and the spinner argument
\* (a name, or a list of frames).  The interval is not a value of the model:
\* the sleep of _loop may end after any number of polls.
NamedArg(n) == [isList |-> FALSE, list |-> <<>>, name |-> n]
ListArg(l, str) == [isList |-> TRUE, list |-> l, name |-> str]
Configs ==
  {[text |-> <<>>, spinner |-> NamedArg("nosuch")],
   [text |-> <<"V">>, spinner |-> ListArg(<< <<"w", "w", "w">>, <<"n">> >>, "")]}
\* create_vm and delete_vm build their spinner as Spinner(label, "dots")
ProgramConfig == [text |-> <<"V", "M">>, spinner |-> NamedArg("dots")]

\* The messages given to succeed() and fail(), and the str() of the
\* errors a scoped block raises ("" is an error without a message).
Messages == {"created"}
ErrorStrs == {"", "boom"}
NoExc == [raised |-> FALSE, msg |-> ""]
Excs == {[raised |-> TRUE, msg |-> m] : m \in ErrorStrs}

\* The errors a write to a closed or broken stream raises.
StreamErrors == {"OSError", "ValueError"}

\* ---------------------------------------------------------------- state
VARIABLES
  text,            \* Spinner.text
  spinner,         \* Spinner.spinner, the constructor's argument
  _stop,           \* Spinner._stop, the threading.Event
  _thread,         \* Spinner._thread: "none", "done" or the thread's position in _loop
  _cursor_hidden,  \* Spinner._cursor_hidden
  _render_lock,    \* Spinner._render_lock: "free", or "anim" while the thread holds it
  _last_len,       \* Spinner._last_len
  i,               \* the frame counter i of _loop
  out,             \* what has been written to Spinner.stream since the spinner
                   \* was started or the last call on it began; forgotten at
                   \* the caller's next action once the thread is gone
  term,            \* the terminal that shows Spinner.stream
  _instances,      \* the module's list _instances
  pc,              \* the main thread's position
  cur,             \* the call the main thread is in
  idx,             \* position of _restore_all in _instances
  scopes,          \* the with-blocks the main thread is inside, innermost last
  pending,         \* the error propagating in the main thread
  calls,           \* calls made so far
  lastRet,         \* the call that returned last, until the next one begins
  stopped,         \* stop()/succeed()/fail() has returned since the last start
  finStart,        \* index in out[s] of the first write after stop()'s join, 0 before the join
  exitHidden,      \* the spinners Running with a hidden cursor when the exit began
  count,           \* per spinner: threads launched and ended, hide-cursor and
                   \* show-cursor sequences written
  restore,         \* _restore_all so far: the entries visited, those whose
                   \* write raised, whether the hook itself raised
  prog             \* the command-line program: command, result of the existence
                   \* check, commands issued, how the last one resolved, messages

spinnerVars == <<text, spinner>>
threadVars == <<_stop, _thread, _cursor_hidden, _render_lock, _last_len, i, out, term>>
mainVars == <<_instances, pc, cur, idx, scopes, pending, calls, lastRet>>
histVars == <<stopped, finStart, exitHidden>>
auxVars == <<count, restore, prog>>
vars == <<text, spinner, _stop, _thread, _cursor_hidden, _render_lock,
          _last_len, i, out, term, _instances, pc, cur, idx, scopes,
          pending, calls, lastRet, stopped, finStart, exitHidden,
          count, restore, prog>>

\* ------------------------------------------------------- pure functions
Max(a, b) == IF a >= b THEN a ELSE b

Spaces(n) == [k \in 1..n |-> SPACE]

\* Spinner._get_frames
_get_frames(arg) ==
  IF arg.isList /\ arg.list # <<>>
  THEN arg.list
  ELSE IF arg.name \in DOMAIN _SPINNERS THEN _SPINNERS[arg.name] ELSE _SPINNERS["dots"]

_frames(s) == _get_frames(spinner[s])

\* frame = self._frames[i % len(self._frames)]; line = f"{frame} {self.text}"
FrameLine(s) == _frames(s)[(i[s] % Len(_frames(s))) + 1] \o <<SPACE>> \o text[s]

\* RenderPad without the padding
RenderPad_None(last, s) == 0

\* RenderPad that pads one space too few
RenderPad_Short(last, s) == Max(0, last - Len(s) - 1)

\* pad = max(0, self._last_len - len(s))
RenderPad(last, s) == Max(0, last - Len(s))

\* what _render(s) writes: "\r" + s + (" " * pad)
RenderBytes(last, s) == <<CR>> \o s \o Spaces(RenderPad(last, s))

\* f"{_GREEN}✔{_RESET} {text}\n" and f"{_RED}✖{_RESET} {text}\n"
SucceedLine(t) == <<_GREEN, CHECK_MARK, _RESET, SPACE, t, NL>>
FailLine(t) == <<_RED, CROSS_MARK, _RESET, SPACE, t, NL>>

SummaryLine(op, t) == IF op = "succeed" THEN SucceedLine(t) ELSE FailLine(t)

\* ExitFailText without the default message
ExitFailText_NoDefault(exc) == exc.msg

\* str(exc) if str(exc) else "Failed."
ExitFailText(exc) == IF exc.msg # "" THEN exc.msg ELSE "Failed."

\* ExitReturn of an __exit__ that returns True
ExitReturn_Swallow(exc) == TRUE

\* __exit__ has no return statement: it returns None, which is false
ExitReturn(exc) == FALSE

is_alive(s) == _thread[s] \notin {"none", "done"}

\* ------------------------------------------------------------- terminal
\* The terminal the stream is shown on: the cells of the current line up to
\* the last one that is not blank, the column of the text cursor and whether
\* the cursor is hidden.  Every character takes one column.
TermInit == [line |-> <<>>, col |-> 0, hidden |-> FALSE]

RECURSIVE Trim(_)
Trim(line) ==
  IF line # <<>> /\ line[Len(line)] = SPACE THEN Trim(SubSeq(line, 1, Len(line) - 1)) ELSE line

PutCell(line, col, c) ==
  Trim([k \in 1..Max(Len(line), col + 1) |->
          IF k = col + 1 THEN c ELSE IF k <= Len(line) THEN line[k] ELSE SPACE])

TermStep(t, c) ==
  CASE c = HIDE_CURSOR -> [t EXCEPT !.hidden = TRUE]
    [] c = SHOW_CURSOR -> [t EXCEPT !.hidden = FALSE]
    [] c = CR -> [t EXCEPT !.col = 0]
    [] c = NL -> [t EXCEPT !.line = <<>>, !.col = 0]
    [] c \in {_GREEN, _RED, _RESET} -> t
    [] OTHER -> [t EXCEPT !.line = PutCell(t.line, t.col, c), !.col = t.col + 1]

\* The terminal after the tokens of bytes, one at a time.  The terminal and
\* the remaining tokens are bound as values before the next token is fed.
RECURSIVE Feed(_, _)
Feed(t, bytes) ==
  IF bytes = <<>>
  THEN t
  ELSE CHOOSE r \in {Feed(u, rest) : u \in {TermStep(t, bytes[1])},
                                     rest \in {SubSeq(bytes, 2, Len(bytes))}} : TRUE

\* self.stream.write(bytes)
Write(s, bytes) ==
  /\ out' = [out EXCEPT ![s] = @ \o bytes]
  /\ term' = [term EXCEPT ![s] = Feed(@, bytes)]

Count(log, c) == Cardinality({k \in 1..Len(log) : log[k] = c})

After(log, from) == SubSeq(log, from, Len(log))

\* ------------------------------------------------------------------ Init
NoCall == [op |-> "none", s |-> "sp1", text |-> "", scope |-> FALSE, exc |-> NoExc,
           wasStopped |-> FALSE, wasAlive |-> FALSE]

NoCount == [launched |-> 0, ended |-> 0, hides |-> 0, shows |-> 0]

NoRestore == [visited |-> <<>>, failed |-> {}, raised |-> FALSE]

NoProg == [cmd |-> "none", check |-> "none", issued |-> <<>>, result |-> "none",
           printed |-> <<>>]

\* one more thread launched or ended, one more sequence written
Counted(s, what) == count' = [count EXCEPT ![s][what] = @ + 1]

Init ==
  /\ \E c \in Configs :
       /\ text = [s \in Spinners |-> IF s = "sp1" THEN c.text ELSE ProgramConfig.text]
       /\ spinner = [s \in Spinners |-> IF s = "sp1" THEN c.spinner ELSE ProgramConfig.spinner]
  /\ _stop = [s \in Spinners |-> FALSE]
  /\ _thread = [s \in Spinners |-> "none"]
  /\ _cursor_hidden = [s \in Spinners |-> FALSE]
  /\ _render_lock = [s \in Spinners |-> "free"]
  /\ _last_len = [s \in Spinners |-> 0]
  /\ i = [s \in Spinners |-> 0]
  /\ out = [s \in Spinners |-> <<>>]
  /\ term = [s \in Spinners |-> TermInit]
  /\ _instances = <<>>
  /\ pc = "idle"
  /\ cur = NoCall
  /\ idx = 1
  /\ scopes = <<>>
  /\ pending = NoExc
  /\ calls = 0
  /\ lastRet = NoCall
  /\ stopped = [s \in Spinners |-> FALSE]
  /\ finStart = [s \in Spinners |-> 0]
  /\ exitHidden = {}
  /\ count = [s \in Spinners |-> NoCount]
  /\ restore = NoRestore
  /\ prog = NoProg


\* ------------------------------------------------- the animation thread
\* Spinner._loop, run by the daemon thread that start() launches.  The
\* threads of a process that has exited take no step.
Live(s) == is_alive(s) /\ pc # "exited"

\* _loop: self._hide_cursor() -- if not self._cursor_hidden:
\* self.stream.write("\x1b[?25l").  The test and the write are one step: no
\* other thread sets the flag.
LoopHideWrite(s) ==
  /\ Live(s) /\ _thread[s] = "hide_cursor"
  /\ IF ~_cursor_hidden[s]
     THEN /\ Write(s, <<HIDE_CURSOR>>)
          /\ Counted(s, "hides")
          /\ _thread' = [_thread EXCEPT ![s] = "hide_flush"]
     ELSE /\ _thread' = [_thread EXCEPT ![s] = "loop_test"]
          /\ UNCHANGED <<out, term, count>>
  /\ UNCHANGED <<_stop, _cursor_hidden, _render_lock, _last_len, i>>
  /\ UNCHANGED <<spinnerVars, mainVars, histVars>>
  /\ UNCHANGED <<restore, prog>>

\* LoopHideFlush of a _hide_cursor that does not set the flag
LoopHideFlush_NoFlag(s) ==
  /\ Live(s) /\ _thread[s] = "hide_flush"
  /\ _thread' = [_thread EXCEPT ![s] = "loop_test"]
  /\ UNCHANGED <<_stop, _cursor_hidden, _render_lock, _last_len, i, out, term>>
  /\ UNCHANGED <<spinnerVars, mainVars, histVars, auxVars>>

\* _hide_cursor: self.stream.flush(); self._cursor_hidden = True
LoopHideFlush(s) ==
  /\ Live(s) /\ _thread[s] = "hide_flush"
  /\ _cursor_hidden' = [_cursor_hidden EXCEPT ![s] = TRUE]
  /\ _thread' = [_thread EXCEPT ![s] = "loop_test"]
  /\ UNCHANGED <<_stop, _render_lock, _last_len, i, out, term>>
  /\ UNCHANGED <<spinnerVars, mainVars, histVars>>
  /\ UNCHANGED auxVars

\* LoopTest of a _loop whose while condition is True
LoopTest_Forever(s) ==
  /\ Live(s) /\ _thread[s] = "loop_test"
  /\ i[s] < MaxFrames
  /\ _thread' = [_thread EXCEPT ![s] = "render"]
  /\ UNCHANGED <<_stop, _cursor_hidden, _render_lock, _last_len, i, out, term>>
  /\ UNCHANGED <<spinnerVars, mainVars, histVars, auxVars>>

\* _loop: while not self._stop.is_set().  The thread renders at most
\* MaxFrames frames; after that it only waits for the stop signal.  When
\* _loop returns the thread ends and its local i is gone.
LoopTest(s) ==
  /\ Live(s) /\ _thread[s] = "loop_test"
  /\ _stop[s] \/ i[s] < MaxFrames
  /\ _thread' = [_thread EXCEPT ![s] = IF _stop[s] THEN "done" ELSE "render"]
  /\ i' = [i EXCEPT ![s] = IF _stop[s] THEN 0 ELSE @]
  /\ IF _stop[s] THEN Counted(s, "ended") ELSE UNCHANGED count
  /\ UNCHANGED <<_stop, _cursor_hidden, _render_lock, _last_len, out, term>>
  /\ UNCHANGED <<spinnerVars, mainVars, histVars>>
  /\ UNCHANGED <<restore, prog>>

\* _loop: with self._render_lock: _render(line):
\* self.stream.write("\r" + s + (" " * pad))
LoopRenderWrite(s) ==
  /\ Live(s) /\ _thread[s] = "render"
  /\ _render_lock[s] = "free"
  /\ _render_lock' = [_render_lock EXCEPT ![s] = "anim"]
  /\ Write(s, RenderBytes(_last_len[s], FrameLine(s)))
  /\ _thread' = [_thread EXCEPT ![s] = "render_flush"]
  /\ UNCHANGED <<_stop, _cursor_hidden, _last_len, i>>
  /\ UNCHANGED <<spinnerVars, mainVars, histVars>>
  /\ UNCHANGED auxVars

\* _render(line): self.stream.flush(); self._last_len = len(s); the lock is
\* released; _loop: i += 1; end = time.time() + self.interval
LoopRenderFlush(s) ==
  /\ Live(s) /\ _thread[s] = "render_flush"
  /\ _last_len' = [_last_len EXCEPT ![s] = Len(FrameLine(s))]
  /\ _render_lock' = [_render_lock EXCEPT ![s] = "free"]
  /\ i' = [i EXCEPT ![s] = @ + 1]
  /\ _thread' = [_thread EXCEPT ![s] = "sleep"]
  /\ UNCHANGED <<_stop, _cursor_hidden, out, term>>
  /\ UNCHANGED <<spinnerVars, mainVars, histVars>>
  /\ UNCHANGED auxVars

\* _loop: while time.time() < end: if self._stop.is_set(): break;
\* time.sleep(0.01).  The sleep ends when the interval has elapsed, which
\* may be at any poll, or at the first poll that sees the stop signal; a
\* poll that sees neither leaves the thread where it is.
LoopSleep(s) ==
  /\ Live(s) /\ _thread[s] = "sleep"
  /\ _thread' = [_thread EXCEPT ![s] = "loop_test"]
  /\ UNCHANGED <<_stop, _cursor_hidden, _render_lock, _last_len, i, out, term>>
  /\ UNCHANGED <<spinnerVars, mainVars, histVars>>
  /\ UNCHANGED auxVars

Loop(s) ==
  \/ LoopHideWrite(s) \/ LoopHideFlush(s)
  \/ LoopTest(s) \/ LoopRenderWrite(s) \/ LoopRenderFlush(s)
  \/ LoopSleep(s)

\* ------------------------------------------------------ the main thread
Idle == pc = "idle" /\ pending = NoExc /\ calls < MaxCalls

InRegistry(s) == \E k \in 1..Len(_instances) : _instances[k] = s

\* What the caller's next action leaves of the record f of a spinner's
\* output: that of the spinners whose thread is alive.  What a finished call
\* wrote is looked at when the call returns, not after the next action.
Kept(f, empty) == [t \in Spinners |-> IF is_alive(t) THEN f[t] ELSE empty]

\* AlreadyRunning of a start() without the test
AlreadyRunning_Never(s) == FALSE

\* start: if self._thread and self._thread.is_alive(): return self
AlreadyRunning(s) == _thread[s] # "none" /\ is_alive(s)

\* StartThread of a start() without self._stop.clear()
StartThread_NoClear(s) ==
  /\ out' = [Kept(out, <<>>) EXCEPT ![s] = IF AlreadyRunning(s) THEN @ ELSE <<>>]
  /\ finStart' = [Kept(finStart, 0) EXCEPT ![s] = IF AlreadyRunning(s) THEN @ ELSE 0]
  /\ IF AlreadyRunning(s)
     THEN UNCHANGED <<_stop, _thread, i, stopped, count>>
     ELSE /\ UNCHANGED _stop
          /\ Counted(s, "launched")
          /\ _thread' = [_thread EXCEPT ![s] = "hide_cursor"]
          /\ i' = [i EXCEPT ![s] = 0]
          /\ stopped' = [stopped EXCEPT ![s] = FALSE]

\* Spinner.start: returns at once while the thread is alive, otherwise
\* clears the stop signal and launches the thread on _loop (i = 0)
StartThread(s) ==
  /\ out' = [Kept(out, <<>>) EXCEPT ![s] = IF AlreadyRunning(s) THEN @ ELSE <<>>]
  /\ finStart' = [Kept(finStart, 0) EXCEPT ![s] = IF AlreadyRunning(s) THEN @ ELSE 0]
  /\ IF AlreadyRunning(s)
     THEN UNCHANGED <<_stop, _thread, i, stopped, count>>
     ELSE /\ _stop' = [_stop EXCEPT ![s] = FALSE]
          /\ Counted(s, "launched")
          /\ _thread' = [_thread EXCEPT ![s] = "hide_cursor"]
          /\ i' = [i EXCEPT ![s] = 0]
          /\ stopped' = [stopped EXCEPT ![s] = FALSE]

\* the caller calls spinner.start()
CallStart(s) ==
  /\ Idle
  /\ StartThread(s)
  /\ calls' = calls + 1
  /\ lastRet' = [NoCall EXCEPT !.op = "start", !.s = s]
  /\ UNCHANGED <<_cursor_hidden, _render_lock, _last_len, term>>
  /\ UNCHANGED <<_instances, pc, cur, idx, scopes, pending>>
  /\ UNCHANGED <<spinnerVars, exitHidden>>
  /\ UNCHANGED <<restore, prog>>

\* the caller's _instances.append(spinner), as in create_vm and delete_vm
CallAppend(s) ==
  /\ Idle
  /\ ~InRegistry(s)
  /\ _instances' = Append(_instances, s)
  /\ calls' = calls + 1
  /\ lastRet' = [NoCall EXCEPT !.op = "append", !.s = s]
  /\ out' = Kept(out, <<>>)
  /\ finStart' = Kept(finStart, 0)
  /\ UNCHANGED <<_stop, _thread, _cursor_hidden, _render_lock, _last_len, i, term>>
  /\ UNCHANGED <<pc, cur, idx, scopes, pending>>
  /\ UNCHANGED <<spinnerVars, stopped, exitHidden>>
  /\ UNCHANGED auxVars

\* the caller's spinner = Spinner(...).start(); _instances.append(spinner),
\* as in create_vm and delete_vm
CallStartRegistered(s) ==
  /\ Idle
  /\ ~InRegistry(s)
  /\ StartThread(s)
  /\ _instances' = Append(_instances, s)
  /\ calls' = calls + 1
  /\ lastRet' = [NoCall EXCEPT !.op = "start", !.s = s]
  /\ UNCHANGED <<_cursor_hidden, _render_lock, _last_len, term>>
  /\ UNCHANGED <<pc, cur, idx, scopes, pending>>
  /\ UNCHANGED <<spinnerVars, exitHidden>>
  /\ UNCHANGED <<restore, prog>>

\* the call op(t) on spinner s, with what the spinner was when it began
TheCall(op, s, t, scope, exc) ==
  [op |-> op, s |-> s, text |-> t, scope |-> scope, exc |-> exc,
   wasStopped |-> stopped[s], wasAlive |-> is_alive(s)]

\* stop(), succeed() or fail() is entered
BeginCall(c) ==
  /\ cur' = c
  /\ pc' = "stop_set"
  /\ out' = [Kept(out, <<>>) EXCEPT ![c.s] = <<>>]
  /\ finStart' = [Kept(finStart, 0) EXCEPT ![c.s] = 0]
  /\ lastRet' = NoCall
  /\ UNCHANGED <<_stop, _thread, _cursor_hidden, _render_lock, _last_len, i, term>>
  /\ UNCHANGED <<spinnerVars, _instances, idx, stopped, exitHidden>>
  /\ UNCHANGED auxVars

\* the caller calls spinner.stop()
CallStop(s) ==
  /\ Idle
  /\ BeginCall(TheCall("stop", s, "", FALSE, NoExc))
  /\ calls' = calls + 1
  /\ UNCHANGED <<scopes, pending>>

\* the caller calls spinner.succeed(t)
CallSucceed(s, t) ==
  /\ Idle
  /\ BeginCall(TheCall("succeed", s, t, FALSE, NoExc))
  /\ calls' = calls + 1
  /\ UNCHANGED <<scopes, pending>>

\* the caller calls spinner.fail(t)
CallFail(s, t) ==
  /\ Idle
  /\ BeginCall(TheCall("fail", s, t, FALSE, NoExc))
  /\ calls' = calls + 1
  /\ UNCHANGED <<scopes, pending>>

InScope(s) == \E k \in 1..Len(scopes) : scopes[k] = s

\* Spinner.__enter__: "with spinner:" is entered
CallEnter(s) ==
  /\ Idle
  /\ ~InScope(s)
  /\ StartThread(s)
  /\ scopes' = Append(scopes, s)
  /\ calls' = calls + 1
  /\ lastRet' = [NoCall EXCEPT !.op = "enter", !.s = s, !.scope = TRUE]
  /\ UNCHANGED <<_cursor_hidden, _render_lock, _last_len, term>>
  /\ UNCHANGED <<_instances, pc, cur, idx, pending>>
  /\ UNCHANGED <<spinnerVars, exitHidden>>
  /\ UNCHANGED <<restore, prog>>

\* Spinner.__exit__(exc_type, exc, tb): fail(str(exc) or "Failed.") when the
\* block raised, succeed("Done.") otherwise
ExitCall(s, exc) ==
  IF exc.raised
  THEN TheCall("fail", s, ExitFailText(exc), TRUE, exc)
  ELSE TheCall("succeed", s, "Done.", TRUE, exc)

\* The innermost with-block is left: its body completed, it raised exc, or
\* the error of an inner block propagates through it.
CallExit(exc) ==
  /\ pc = "idle"
  /\ scopes # <<>>
  /\ pending.raised => exc = pending
  /\ BeginCall(ExitCall(scopes[Len(scopes)], exc))
  /\ scopes' = SubSeq(scopes, 1, Len(scopes) - 1)
  /\ pending' = NoExc
  /\ UNCHANGED calls

\* the caller's except clause handles the propagating error
CallerCatch ==
  /\ pc = "idle"
  /\ pending.raised
  /\ pending' = NoExc
  /\ lastRet' = [NoCall EXCEPT !.op = "catch"]
  /\ UNCHANGED <<_instances, pc, cur, idx, scopes, calls>>
  /\ UNCHANGED <<spinnerVars, threadVars, histVars>>
  /\ UNCHANGED auxVars

\* --------------------------------------------------------- Spinner.stop
\* The main thread is in stop() from "stop_set" to "return".  Once the join
\* has returned the spinner's thread is gone, so the line clear, the cursor
\* restore and the summary write are one step each.

\* stop: self._stop.set()
StopSet ==
  /\ pc = "stop_set"
  /\ _stop' = [_stop EXCEPT ![cur.s] = TRUE]
  /\ pc' = "stop_join"
  /\ UNCHANGED <<_thread, _cursor_hidden, _render_lock, _last_len, i, out, term>>
  /\ UNCHANGED <<_instances, cur, idx, scopes, pending, calls, lastRet>>
  /\ UNCHANGED <<spinnerVars, histVars>>
  /\ UNCHANGED auxVars

\* Joined of a stop() that does not wait for the thread
Joined_NoWait(s) == TRUE

\* self._thread.join() returns when the thread has ended; without a thread
\* (if self._thread is false) there is no join
Joined(s) == ~is_alive(s)

\* stop: if self._thread: self._thread.join()
StopJoin ==
  /\ pc = "stop_join"
  /\ Joined(cur.s)
  /\ pc' = "stop_clear"
  /\ finStart' = [finStart EXCEPT ![cur.s] = Len(out[cur.s]) + 1]
  /\ UNCHANGED <<_instances, cur, idx, scopes, pending, calls, lastRet>>
  /\ UNCHANGED <<spinnerVars, threadVars, stopped, exitHidden>>
  /\ UNCHANGED auxVars

\* what _clear_line writes: self._render(""), then "\r"
ClearLineBytes(last) == RenderBytes(last, <<>>) \o <<CR>>

\* stop: with self._render_lock: self._clear_line()
StopClear ==
  /\ pc = "stop_clear"
  /\ _render_lock[cur.s] = "free"
  /\ Write(cur.s, ClearLineBytes(_last_len[cur.s]))
  /\ _last_len' = [_last_len EXCEPT ![cur.s] = 0]
  /\ pc' = "stop_show"
  /\ UNCHANGED <<_stop, _thread, _cursor_hidden, _render_lock, i>>
  /\ UNCHANGED <<_instances, cur, idx, scopes, pending, calls, lastRet>>
  /\ UNCHANGED <<spinnerVars, histVars>>
  /\ UNCHANGED auxVars

\* ShowCursorBytes of a _show_cursor that only resets the flag
ShowCursorBytes_Silent(hidden) == <<>>

\* what _show_cursor writes: the sequence when the flag is set, else nothing
ShowCursorBytes(hidden) == IF hidden THEN <<SHOW_CURSOR>> ELSE <<>>

\* AfterStop of a succeed/fail that writes no summary
AfterStop_NoSummary(c) == "return"

\* where stop() returns to: the caller, or the summary write of succeed/fail
AfterStop(c) == IF c.op = "stop" THEN "return" ELSE "summary"

\* stop: self._show_cursor()
StopShow ==
  /\ pc = "stop_show"
  /\ Write(cur.s, ShowCursorBytes(_cursor_hidden[cur.s]))
  /\ _cursor_hidden' = [_cursor_hidden EXCEPT ![cur.s] = FALSE]
  /\ count' = [count EXCEPT ![cur.s].shows =
                  @ + Count(ShowCursorBytes(_cursor_hidden[cur.s]), SHOW_CURSOR)]
  /\ pc' = AfterStop(cur)
  /\ UNCHANGED <<_stop, _thread, _render_lock, _last_len, i>>
  /\ UNCHANGED <<_instances, cur, idx, scopes, pending, calls, lastRet>>
  /\ UNCHANGED <<spinnerVars, histVars>>
  /\ UNCHANGED <<restore, prog>>

\* succeed/fail: self.stream.write(f"{glyph} {text}\n"); self.stream.flush()
Summary ==
  /\ pc = "summary"
  /\ Write(cur.s, SummaryLine(cur.op, cur.text))
  /\ pc' = "return"
  /\ UNCHANGED <<_stop, _thread, _cursor_hidden, _render_lock, _last_len, i>>
  /\ UNCHANGED <<_instances, cur, idx, scopes, pending, calls, lastRet>>
  /\ UNCHANGED <<spinnerVars, histVars>>
  /\ UNCHANGED auxVars

\* The error the caller sees when __exit__ returns: the block's error unless
\* __exit__ returned a true value.
Propagated(c) == IF c.scope /\ c.exc.raised /\ ~ExitReturn(c.exc) THEN c.exc ELSE NoExc

\* stop(), succeed(), fail() or __exit__ returns to the caller
Return ==
  /\ pc = "return"
  /\ pc' = "idle"
  /\ lastRet' = cur
  /\ cur' = NoCall
  /\ pending' = Propagated(cur)
  /\ stopped' = [stopped EXCEPT ![cur.s] = TRUE]
  /\ UNCHANGED <<_instances, idx, scopes, calls>>
  /\ UNCHANGED <<spinnerVars, threadVars, finStart, exitHidden>>
  /\ UNCHANGED auxVars

\* ------------------------------------------------- exit and _restore_all
\* The main thread ends, normally or by an unhandled error, outside every
\* with-block: the interpreter runs the atexit hook _restore_all while the
\* daemon threads are still running.
AtExit ==
  /\ pc = "idle"
  /\ scopes = <<>>
  /\ pc' = "restore_next"
  /\ idx' = 1
  /\ exitHidden' = {s \in Spinners : is_alive(s) /\ term[s].hidden}
  /\ out' = Kept(out, <<>>)
  /\ finStart' = Kept(finStart, 0)
  /\ UNCHANGED <<_stop, _thread, _cursor_hidden, _render_lock, _last_len, i, term>>
  /\ UNCHANGED <<_instances, cur, scopes, pending, calls, lastRet>>
  /\ UNCHANGED <<spinnerVars, stopped>>
  /\ UNCHANGED auxVars

\* _restore_all: for sp in _instances: sp._show_cursor() -- the flag test
RestoreNext ==
  /\ pc = "restore_next"
  /\ IF idx > Len(_instances)
     THEN pc' = "restored" /\ UNCHANGED <<idx, restore>>
     ELSE /\ restore' = [restore EXCEPT !.visited = Append(@, _instances[idx])]
          /\ IF _cursor_hidden[_instances[idx]]
             THEN pc' = "restore_write" /\ UNCHANGED idx
             ELSE pc' = "restore_next" /\ idx' = idx + 1
  /\ UNCHANGED <<_instances, cur, scopes, pending, calls, lastRet>>
  /\ UNCHANGED <<spinnerVars, threadVars, histVars>>
  /\ UNCHANGED <<count, prog>>

\* RestoreCatches of a hook that catches OSError only
RestoreCatches_OnlyOSError(e) == e = "OSError"

\* _restore_all: except Exception: pass -- the errors a stream write raises
\* (OSError for a broken pipe, ValueError for a closed file) are Exceptions
RestoreCatches(e) == e \in {"OSError", "ValueError"}

\* _restore_all: _show_cursor's self.stream.write("\x1b[?25h").  By the time
\* the process exits the stream may be closed or its pipe broken: the write
\* succeeds or raises e.  A caught error ends the try statement of this
\* entry and the loop goes on; an error that is not caught ends the hook.
RestoreWrite ==
  /\ pc = "restore_write"
  /\ \E e \in {"none"} \cup StreamErrors :
       IF e = "none"
       THEN /\ Write(_instances[idx], <<SHOW_CURSOR>>)
            /\ Counted(_instances[idx], "shows")
            /\ pc' = "restore_flush"
            /\ UNCHANGED <<idx, restore>>
       ELSE /\ restore' = [restore EXCEPT !.failed = @ \cup {_instances[idx]},
                                           !.raised = ~RestoreCatches(e)]
            /\ pc' = IF RestoreCatches(e) THEN "restore_next" ELSE "restored"
            /\ idx' = idx + 1
            /\ UNCHANGED <<out, term, count>>
  /\ UNCHANGED <<_stop, _thread, _cursor_hidden, _render_lock, _last_len, i>>
  /\ UNCHANGED <<_instances, cur, scopes, pending, calls, lastRet>>
  /\ UNCHANGED <<spinnerVars, histVars>>
  /\ UNCHANGED prog

\* _restore_all: _show_cursor's self.stream.flush();
\* self._cursor_hidden = False, then the next entry
RestoreFlush ==
  /\ pc = "restore_flush"
  /\ _cursor_hidden' = [_cursor_hidden EXCEPT ![_instances[idx]] = FALSE]
  /\ idx' = idx + 1
  /\ pc' = "restore_next"
  /\ UNCHANGED <<_stop, _thread, _render_lock, _last_len, i, out, term>>
  /\ UNCHANGED <<_instances, cur, scopes, pending, calls, lastRet>>
  /\ UNCHANGED <<spinnerVars, histVars>>
  /\ UNCHANGED auxVars

\* the interpreter finishes: the daemon threads are gone with the process
ProcessExit ==
  /\ pc = "restored"
  /\ pc' = "exited"
  /\ UNCHANGED <<_instances, cur, idx, scopes, pending, calls, lastRet>>
  /\ UNCHANGED <<spinnerVars, threadVars, histVars>>
  /\ UNCHANGED auxVars

\* ------------------------------------------------------------------ Next
Next ==
  \/ \E s \in Spinners : Loop(s)
  \/ \E s \in Spinners : CallStart(s)
  \/ \E s \in Spinners : CallAppend(s)
  \/ \E s \in Spinners : CallStop(s)
  \/ \E s \in Spinners, t \in Messages : CallSucceed(s, t)
  \/ \E s \in Spinners, t \in Messages : CallFail(s, t)
  \/ \E s \in Spinners : CallEnter(s)
  \/ \E exc \in {NoExc} \cup Excs : CallExit(exc)
  \/ CallerCatch
  \/ StopSet \/ StopJoin \/ StopClear \/ StopShow \/ Summary \/ Return
  \/ AtExit \/ RestoreNext \/ RestoreWrite \/ RestoreFlush \/ ProcessExit

Spec == Init /\ [][Next]_vars

\* ------------------------------------------------------ fair scheduling
\* A caller that only starts and finalizes spinners, under a scheduler that
\* keeps running every thread that can take a step: each animation thread
\* (a daemon thread of the interpreter) and the main thread inside stop().
InStop == StopSet \/ StopJoin \/ StopClear \/ StopShow \/ Summary \/ Return

\* Spinners do not share state: the caller drives one of them.
LiveSpinners == {"sp1"}

LiveNext ==
  \/ \E s \in Spinners : Loop(s)
  \/ \E s \in LiveSpinners : CallStart(s)
  \/ \E s \in LiveSpinners : CallStop(s)
  \/ \E s \in LiveSpinners, t \in Messages : CallSucceed(s, t)
  \/ \E s \in LiveSpinners, t \in Messages : CallFail(s, t)
  \/ InStop

LiveSpec ==
  /\ Init
  /\ [][LiveNext]_vars
  /\ \A s \in Spinners : WF_vars(Loop(s))
  /\ WF_vars(InStop)

\* ------------------------------------------------ exit with a registry
\* A caller that builds spinners the way create_vm and delete_vm do --
\* started and registered, or registered only -- and then lets the process
\* exit while their threads run.
ExitNext ==
  \/ \E s \in Spinners : Loop(s)
  \/ \E s \in Spinners : CallStartRegistered(s)
  \/ \E s \in Spinners : CallAppend(s)
  \/ AtExit \/ RestoreNext \/ RestoreWrite \/ RestoreFlush \/ ProcessExit

ExitSpec == Init /\ [][ExitNext]_vars

\* ------------------------------------------------ the command-line program
\* main() runs one of create_vm, ssh_vm and delete_vm and then the process
\* exits.  The program's spinner is sp2; sp1 is never built.
ProgSpinner == "sp2"

Commands == {"create", "ssh", "delete"}

\* an error other than the ones the operation has an except clause for
\* (KeyboardInterrupt, OSError, ...)
FaultExc == [raised |-> TRUE, msg |-> "fault"]

ProgInit ==
  /\ text = [s \in Spinners |-> ProgramConfig.text]
  /\ spinner = [s \in Spinners |-> ProgramConfig.spinner]
  /\ _stop = [s \in Spinners |-> FALSE]
  /\ _thread = [s \in Spinners |-> "none"]
  /\ _cursor_hidden = [s \in Spinners |-> FALSE]
  /\ _render_lock = [s \in Spinners |-> "free"]
  /\ _last_len = [s \in Spinners |-> 0]
  /\ i = [s \in Spinners |-> 0]
  /\ out = [s \in Spinners |-> <<>>]
  /\ term = [s \in Spinners |-> TermInit]
  /\ _instances = <<>>
  /\ pc = "main"
  /\ cur = NoCall
  /\ idx = 1
  /\ scopes = <<>>
  /\ pending = NoExc
  /\ calls = 0
  /\ lastRet = NoCall
  /\ stopped = [s \in Spinners |-> FALSE]
  /\ finStart = [s \in Spinners |-> 0]
  /\ exitHidden = {}
  /\ count = [s \in Spinners |-> NoCount]
  /\ restore = NoRestore
  /\ prog = NoProg

\* main: the dispatch on sys.argv[1]
Main(cmd) ==
  /\ pc = "main"
  /\ prog' = [prog EXCEPT !.cmd = cmd]
  /\ pc' = "check"
  /\ UNCHANGED <<_instances, cur, idx, scopes, pending, calls, lastRet>>
  /\ UNCHANGED <<spinnerVars, threadVars, histVars, count, restore>>

\* Proceeds of operations that go on whatever the check found
Proceeds_Always(cmd, found) == TRUE

\* create_vm returns when the describe command succeeded (the VM exists);
\* ssh_vm and delete_vm return when it raised CalledProcessError
Proceeds(cmd, found) == IF cmd = "create" THEN found = "notfound" ELSE found = "found"

\* print(f"VM '{name}' already exists ...") / print(f"VM '{name}' not found ...")
CheckMessage(cmd) == IF cmd = "create" THEN "already exists" ELSE "not found"

\* The existence check: subprocess.run(check_cmd, ..., check=True) returns
\* (found), raises CalledProcessError (notfound), or raises something else,
\* which no except clause of the operation handles.
Check ==
  /\ pc = "check"
  /\ \E r \in {"found", "notfound", "fault"} :
       /\ prog' = [prog EXCEPT
                     !.check = r,
                     !.issued = Append(@, "describe"),
                     !.printed = IF r # "fault" /\ ~Proceeds(prog.cmd, r)
                                 THEN Append(@, CheckMessage(prog.cmd)) ELSE @]
       /\ pending' = IF r = "fault" THEN FaultExc ELSE NoExc
       /\ pc' = IF r = "fault" \/ ~Proceeds(prog.cmd, r) THEN "idle"
                ELSE IF prog.cmd = "ssh" THEN "run" ELSE "spin"
  /\ UNCHANGED <<_instances, cur, idx, scopes, calls, lastRet>>
  /\ UNCHANGED <<spinnerVars, threadVars, histVars, count, restore>>

\* create_vm, delete_vm: spinner = Spinner(..., "dots").start();
\* _instances.append(spinner)
SpinStart ==
  /\ pc = "spin"
  /\ StartThread(ProgSpinner)
  /\ _instances' = Append(_instances, ProgSpinner)
  /\ pc' = "run"
  /\ UNCHANGED <<_cursor_hidden, _render_lock, _last_len, term>>
  /\ UNCHANGED <<cur, idx, scopes, pending, calls, lastRet>>
  /\ UNCHANGED <<spinnerVars, exitHidden, restore, prog>>

\* How subprocess.run(cmd, ..., check=True) can end: it returns, raises
\* CalledProcessError (status), raises TimeoutExpired (delete_vm alone
\* passes timeout=180), or raises something else.
Outcomes(cmd) ==
  IF cmd = "delete" THEN {"ok", "status", "timeout", "fault"} ELSE {"ok", "status", "fault"}

\* The blocking external command; the animation thread runs meanwhile.
Run ==
  /\ pc = "run"
  /\ \E r \in Outcomes(prog.cmd) :
       prog' = [prog EXCEPT !.issued = Append(@, prog.cmd), !.result = r]
  /\ pc' = "resolved"
  /\ UNCHANGED <<_instances, cur, idx, scopes, pending, calls, lastRet>>
  /\ UNCHANGED <<spinnerVars, threadVars, histVars, count, restore>>

\* the except clauses after the command: CalledProcessError in all three
\* operations, TimeoutExpired in delete_vm
Caught(cmd, r) == r = "status" \/ (cmd = "delete" /\ r = "timeout")

\* spinner.succeed(...) in the try block, spinner.fail(...) in the handlers
Finalization(cmd, r) ==
  IF r = "ok"
  THEN TheCall("succeed", ProgSpinner, IF cmd = "create" THEN "created" ELSE "deleted",
               FALSE, NoExc)
  ELSE TheCall("fail", ProgSpinner, IF r = "timeout" THEN "timed out" ELSE "failed",
               FALSE, NoExc)

\* The command has resolved: create_vm and delete_vm finalize the spinner
\* when the command returned or a handler caught its error; ssh_vm has no
\* spinner; any other error leaves the operation and main() unhandled.
Resolve ==
  /\ pc = "resolved"
  /\ IF prog.result = "ok" \/ Caught(prog.cmd, prog.result)
     THEN IF prog.cmd = "ssh"
          THEN /\ pc' = "idle"
               /\ UNCHANGED <<_instances, cur, idx, scopes, pending, calls, lastRet>>
               /\ UNCHANGED <<spinnerVars, threadVars, histVars, auxVars>>
          ELSE /\ BeginCall(Finalization(prog.cmd, prog.result))
               /\ calls' = calls + 1
               /\ UNCHANGED <<scopes, pending>>
     ELSE /\ pending' = FaultExc
          /\ pc' = "idle"
          /\ UNCHANGED <<_instances, cur, idx, scopes, calls, lastRet>>
          /\ UNCHANGED <<spinnerVars, threadVars, histVars, auxVars>>

ProgNext ==
  \/ \E s \in Spinners : Loop(s)
  \/ \E cmd \in Commands : Main(cmd)
  \/ Check \/ SpinStart \/ Run \/ Resolve
  \/ StopSet \/ StopJoin \/ StopClear \/ StopShow \/ Summary \/ Return
  \/ AtExit \/ RestoreNext \/ RestoreWrite \/ RestoreFlush \/ ProcessExit

ProgSpec == ProgInit /\ [][ProgNext]_vars

\* ---------------------------------------------------------------- claims
\* the tokens stop(), succeed() and fail() write; every other token (the
\* hide sequence, the characters of the frames and of the label) is written
\* by the animation thread only
FinalTokens ==
  {CR, SPACE, SHOW_CURSOR, NL, _GREEN, _RED, _RESET, CHECK_MARK, CROSS_MARK,
   "Done.", "Failed."} \cup Messages \cup ErrorStrs

\* a character of a frame or of the label
IsFrameToken(c) == c \notin FinalTokens /\ c # HIDE_CURSOR

Finalizers == {"stop", "succeed", "fail"}

\* a call of stop(), succeed() or fail() has returned and the caller has not
\* made another call since
Returned == pc = "idle" /\ lastRet.op \in Finalizers

\* C1: once stop(), succeed() or fail() has returned on a spinner, its
\* cursor-hidden flag is false and the last cursor sequence on its stream is
\* not a hide: the cursor is visible.
C1_CursorVisibleWhenStopped ==
  \A s \in Spinners : stopped[s] => ~_cursor_hidden[s] /\ ~term[s].hidden

\* stop() returned on a spinner whose thread wrote the hide sequence only
\* after stop() had been called (stop() right after start())
C1_Witness ==
  /\ Returned /\ lastRet.op = "stop" /\ lastRet.wasAlive
  /\ stopped[lastRet.s]
  /\ Count(out[lastRet.s], HIDE_CURSOR) = 1
  /\ Count(out[lastRet.s], SHOW_CURSOR) = 1

\* C2: after stop() has passed the join, the animation thread is gone and
\* nothing the animation thread writes (a frame, the hide sequence) follows
\* on the stream: the clear, the show sequence and the summary line come
\* after the thread's last write.
C2_NoFrameAfterFinalization ==
  \A s \in Spinners :
    finStart[s] > 0 =>
      /\ ~is_alive(s)
      /\ \A k \in finStart[s]..Len(out[s]) : out[s][k] \in FinalTokens

\* the thread wrote a frame while stop() was waiting in the join, and the
\* finalization output followed it
C2_Witness ==
  \E s \in Spinners :
    /\ finStart[s] > 1
    /\ Len(out[s]) >= finStart[s]
    /\ \E k \in 1..(finStart[s] - 1) : IsFrameToken(out[s][k])

\* C3 (as claimed): after _restore_all has run and the process has exited,
\* the terminal cursor of no spinner of _instances is hidden.
C3_CursorShownAfterExit ==
  pc = "exited" => \A s \in Spinners : InRegistry(s) => ~term[s].hidden

\* C4 (as claimed): every spinner that was Running with its cursor hidden
\* when the exit began has had the show sequence written by the time the
\* process has exited.
C4_RestoreShowsRunningSpinners ==
  pc = "exited" => \A s \in exitHidden : ~term[s].hidden

\* C5 (as claimed): stop(), succeed() or fail() called on a spinner that is
\* already Stopped writes nothing to the stream.
C5_StopIdempotent ==
  Returned /\ lastRet.wasStopped => out[lastRet.s] = <<>>

\* C6: when stop() has cleared the line, the terminal line is empty, the
\* text cursor is at column 0 and the last character written is a carriage
\* return; when stop() returns, and for as long as the spinner is Stopped,
\* the line is empty, the text cursor at column 0 and the cursor shown.
C6_LineClearedByStop ==
  /\ pc \in {"stop_show", "summary", "return"} =>
       /\ term[cur.s].line = <<>>
       /\ term[cur.s].col = 0
       /\ pc = "stop_show" => out[cur.s][Len(out[cur.s])] = CR
       /\ pc # "stop_show" => ~term[cur.s].hidden
  /\ \A s \in Spinners :
       stopped[s] => term[s].line = <<>> /\ term[s].col = 0 /\ ~term[s].hidden

\* stop() returns on a spinner that rendered a wide frame and then a
\* narrower one
C6_Witness ==
  /\ pc = "return" /\ cur.op = "stop" /\ cur.wasAlive
  /\ spinner[cur.s].isList
  /\ Count(out[cur.s], "n") = 1

\* the line succeed(t) and fail(t) are to write
C7_Line(op, t) ==
  IF op = "succeed"
  THEN <<_GREEN, CHECK_MARK, _RESET, SPACE, t, NL>>
  ELSE <<_RED, CROSS_MARK, _RESET, SPACE, t, NL>>

\* C7: when succeed(t) or fail(t) has returned on a spinner that was
\* Running, the stream ends with the one line glyph, space, t, line break;
\* it is the only line break the call wrote, only carriage returns, blanks
\* and the show sequence lie between the join and that line, and the
\* thread is gone.
C7_SummaryLine ==
  Returned /\ lastRet.op # "stop" /\ lastRet.wasAlive =>
    LET s == lastRet.s
        o == out[s]
    IN /\ Len(o) >= 6
       /\ SubSeq(o, Len(o) - 5, Len(o)) = C7_Line(lastRet.op, lastRet.text)
       /\ Count(o, NL) = 1
       /\ finStart[s] > 0
       /\ \A k \in finStart[s]..(Len(o) - 6) : o[k] \in {CR, SPACE, SHOW_CURSOR}
       /\ ~is_alive(s)

\* succeed("created") returned on a spinner that had rendered a frame
C7_Witness ==
  /\ Returned /\ lastRet.op = "succeed" /\ lastRet.wasAlive /\ ~lastRet.scope
  /\ lastRet.text = "created"
  /\ \E k \in 1..Len(out[lastRet.s]) : IsFrameToken(out[lastRet.s][k])

\* C8: entering a with-block starts the spinner; when the block has been
\* left, the stream ends with exactly one summary line -- the failure line
\* with the error's message, or "Failed." when it has none, if the block
\* raised, the success line "Done." if not -- and the spinner is Stopped,
\* its thread gone, the line empty and the cursor shown.
C8_ScopedUsage ==
  /\ pc = "idle" /\ lastRet.op = "enter" => is_alive(lastRet.s)
  /\ Returned /\ lastRet.scope =>
       LET s == lastRet.s
           o == out[s]
           e == lastRet.exc
           line == IF e.raised
                   THEN <<_RED, CROSS_MARK, _RESET, SPACE,
                          IF e.msg = "" THEN "Failed." ELSE e.msg, NL>>
                   ELSE <<_GREEN, CHECK_MARK, _RESET, SPACE, "Done.", NL>>
       IN /\ Len(o) >= 6
          /\ SubSeq(o, Len(o) - 5, Len(o)) = line
          /\ Count(o, NL) = 1
          /\ stopped[s] /\ ~is_alive(s)
          /\ ~_cursor_hidden[s] /\ ~term[s].hidden
          /\ term[s].line = <<>> /\ term[s].col = 0

\* a with-block whose spinner was still Running raised an error without a
\* message and has been left
C8_Witness ==
  /\ Returned /\ lastRet.scope /\ lastRet.wasAlive
  /\ lastRet.exc.raised /\ lastRet.exc.msg = ""

\* C9: when __exit__ has returned the caller has the block's own error
\* (none if the block raised none); no error reaches the caller while
\* __exit__ is running; and whenever an error is propagating, the spinner
\* of the block it left is restored: thread gone, line empty, cursor shown.
C9_ErrorPropagates ==
  /\ Returned /\ lastRet.scope => pending = lastRet.exc
  /\ pc \notin {"idle", "restore_next", "restore_write", "restore_flush",
                "restored", "exited"} => ~pending.raised
  /\ pending.raised =>
       /\ lastRet.scope /\ lastRet.op = "fail"
       /\ ~is_alive(lastRet.s)
       /\ term[lastRet.s].line = <<>> /\ term[lastRet.s].col = 0
       /\ ~term[lastRet.s].hidden /\ ~_cursor_hidden[lastRet.s]

\* the error "boom" of a block whose spinner was Running is propagating
C9_Witness ==
  /\ pc = "idle" /\ pending.raised /\ pending.msg = "boom"
  /\ lastRet.wasAlive

\* C10 (as claimed): every spinner whose animation thread is running is an
\* entry of _instances.
C10_RunningIsRegistered ==
  \A s \in Spinners : is_alive(s) => InRegistry(s)


\* C11: a spinner has at most one live animation thread, and exactly one
\* while it is Running; start() (or __enter__) on a spinner whose thread is
\* alive launches no thread, writes nothing and leaves the frame counter and
\* the stop signal as they are.
LiveThreads(s) == count[s].launched - count[s].ended

C11_SingleThread ==
  /\ [](\A s \in Spinners :
         /\ LiveThreads(s) \in {0, 1}
         /\ is_alive(s) <=> LiveThreads(s) = 1)
  /\ [][\A s \in Spinners :
         (is_alive(s) /\ (CallStart(s) \/ CallEnter(s)))
           => /\ _thread'[s] = _thread[s]
              /\ count'[s] = count[s]
              /\ out'[s] = out[s] /\ term'[s] = term[s]
              /\ i'[s] = i[s]
              /\ _stop'[s] = _stop[s]]_vars

\* start() has returned on a spinner whose thread was rendering its second
\* frame with the stop signal clear
C11_Witness ==
  \E s \in Spinners :
    /\ pc = "idle" /\ lastRet.op = "start" /\ lastRet.s = s
    /\ calls = 2 /\ count[s].launched = 1
    /\ _thread[s] = "render_flush" /\ i[s] = 1

\* C12: in create and delete the spinner is started before the external
\* command is issued, and however the command resolved (success, failure
\* status, timeout, any other error), once the operation is over the spinner
\* has been finalized exactly once -- succeed on success, fail otherwise --
\* and is not Running.
ProgOver ==
  pc \in {"idle", "restore_next", "restore_write", "restore_flush", "restored", "exited"}

Issued(cmd) == \E k \in 1..Len(prog.issued) : prog.issued[k] = cmd

C12_FinalizedOnceAfterCommand ==
  /\ (prog.cmd \in {"create", "delete"} /\ Issued(prog.cmd))
       => count[ProgSpinner].launched = 1
  /\ (prog.cmd \in {"create", "delete"} /\ prog.result # "none" /\ ProgOver)
       => /\ calls = 1
          /\ stopped[ProgSpinner] /\ ~is_alive(ProgSpinner)
          /\ lastRet.op = IF prog.result = "ok" THEN "succeed" ELSE "fail"

\* C13: the create command is issued only after an existence check that did
\* not find the VM, the delete and ssh commands only after one that found
\* it; when create finds the VM it reports that it exists, starts no spinner
\* and issues nothing else.
C13_SingleVM ==
  /\ prog.issued # <<>> => prog.issued[1] = "describe"
  /\ Issued("create") => prog.check = "notfound"
  /\ Issued("delete") => prog.check = "found"
  /\ Issued("ssh") => prog.check = "found"
  /\ (prog.cmd = "create" /\ prog.check = "found")
       => /\ prog.issued = <<"describe">>
          /\ prog.printed = <<"already exists">>
          /\ count[ProgSpinner].launched = 0
          /\ _instances = <<>>

\* create has found the VM and the process is over
C13_Witness == prog.cmd = "create" /\ prog.check = "found" /\ pc = "exited"

\* C14: start() returns without waiting for the animation thread; under fair
\* scheduling a thread whose stop signal is set ends, whether it is in the
\* render loop or in the sleep loop, and every call of stop(), succeed() and
\* fail() returns to the caller.
C14_CallsReturn ==
  /\ [][\A s \in Spinners :
         CallStart(s) => (pc' = "idle" /\ lastRet'.op = "start")]_vars
  /\ \A s \in Spinners : (_stop[s] /\ is_alive(s)) ~> ~is_alive(s)
  /\ (pc = "stop_set") ~> (pc = "idle" /\ lastRet.op \in Finalizers)

\* a call has returned that found the thread alive and waited for its end
C14_Witness ==
  /\ pc = "idle" /\ lastRet.op \in Finalizers /\ lastRet.wasAlive
  /\ count[lastRet.s].ended = 1 /\ calls = 2

\* C15 as stated: once a spinner is Stopped it stays Stopped, and no later
\* step launches its animation thread or hides the cursor again.
C15_StoppedIsTerminal ==
  [][\A s \in Spinners :
       stopped[s] => /\ stopped'[s]
                     /\ _thread'[s] \in {"none", "done"}
                     /\ count'[s] = count[s]]_vars

\* C15 amended: a Stopped spinner has no live thread; it leaves Stopped only
\* by start() or __enter__, which clear the stop signal and launch a new
\* animation thread; every other step leaves it Stopped, launches no thread
\* and hides no cursor.
C15_StoppedUntilRestart ==
  /\ [](\A s \in Spinners : stopped[s] => ~is_alive(s))
  /\ [][\A s \in Spinners :
         stopped[s] =>
           IF CallStart(s) \/ CallEnter(s)
           THEN /\ ~stopped'[s]
                /\ _thread'[s] = "hide_cursor" /\ ~_stop'[s] /\ i'[s] = 0
                /\ count'[s] = [count[s] EXCEPT !.launched = @ + 1]
           ELSE /\ stopped'[s]
                /\ _thread'[s] = _thread[s]
                /\ count'[s] = count[s]]_vars

\* a spinner that was stopped is Running again, on its second thread, and
\* has rendered a frame
C15_Witness ==
  \E s \in Spinners :
    /\ count[s].launched = 2 /\ count[s].ended = 1
    /\ ~stopped[s] /\ _thread[s] = "sleep"

\* C16: a spinner writes the hide-cursor sequence at most once per
\* activation and never more show-cursor than hide-cursor sequences; once it
\* has left Running, by stop/succeed/fail or by the exit restoration of a
\* registered spinner whose write did not fail, every hide-cursor sequence
\* has been answered by exactly one show-cursor sequence.
C16_HideShowBalance ==
  \A s \in Spinners :
    /\ count[s].hides <= count[s].launched
    /\ count[s].shows <= count[s].hides
    /\ stopped[s] => count[s].shows = count[s].hides
    /\ (pc = "exited" /\ InRegistry(s) /\ s \notin restore.failed)
         => count[s].shows = count[s].hides

\* C17: the animation thread of a spinner and the main thread are never both
\* between the start of a write to that spinner's stream and the end of its
\* flush.  After the join stop() has no thread to meet; the main thread is
\* inside a write while the thread runs only in _restore_all.
InThreadWrite(s) == Live(s) /\ _thread[s] \in {"hide_flush", "render_flush"}

InMainWrite(s) == pc = "restore_flush" /\ _instances[idx] = s

C17_WritesExclusive == \A s \in Spinners : ~(InThreadWrite(s) /\ InMainWrite(s))

\* C18: a render of a line of width W2 after a line of width W1 writes a
\* carriage return, the line and max(0, W1 - W2) spaces; afterwards the
\* recorded width is W2 and the terminal line shows the new line and nothing
\* of the earlier one.
LastWritten(s, n) == SubSeq(out[s], Len(out[s]) - n + 1, Len(out[s]))

\* the line the thread rendered last: frame i - 1
PrevLine(s) == _frames(s)[((i[s] - 1) % Len(_frames(s))) + 1] \o <<SPACE>> \o text[s]

C18_RenderPadsToLastWidth ==
  \A s \in Spinners :
    /\ (Live(s) /\ _thread[s] = "render_flush")
         => LET W1 == _last_len[s]
                W2 == Len(FrameLine(s))
                pad == IF W1 > W2 THEN W1 - W2 ELSE 0
            IN /\ term[s].line = Trim(FrameLine(s))
               /\ pc = "idle" =>
                    /\ Len(out[s]) >= 1 + W2 + pad
                    /\ LastWritten(s, 1 + W2 + pad)
                         = <<CR>> \o FrameLine(s) \o [k \in 1..pad |-> SPACE]
    /\ (Live(s) /\ _thread[s] \in {"sleep", "loop_test"} /\ i[s] >= 1)
         => /\ _last_len[s] = Len(PrevLine(s))
            /\ term[s].line = Trim(PrevLine(s))

\* the thread has written a line shorter than the one before it
C18_Witness ==
  \E s \in Spinners :
    /\ Live(s) /\ _thread[s] = "render_flush" /\ pc = "idle"
    /\ _last_len[s] > Len(FrameLine(s))

\* C19: _restore_all visits every entry of _instances once, in order; an
\* entry whose stream write raises does not end it: the entries after it
\* are still visited, and the hook itself raises nothing.
C19_RestoreVisitsAll ==
  /\ pc \in {"restore_next", "restore_write", "restore_flush"}
       => /\ ~restore.raised
          /\ restore.visited =
               SubSeq(_instances, 1, IF pc = "restore_next" THEN idx - 1 ELSE idx)
  /\ pc \in {"restored", "exited"}
       => /\ ~restore.raised
          /\ restore.visited = _instances

\* the write for the first of two entries raised and the second entry has
\* been restored all the same
C19_Witness ==
  /\ pc = "exited"
  /\ Len(_instances) = 2
  /\ restore.failed = {_instances[1]}
  /\ count[_instances[2]].shows = 1

\* C20: whenever no thread is inside _hide_cursor or _show_cursor of a
\* spinner, its _cursor_hidden flag is set exactly when it has written one
\* more hide-cursor than show-cursor sequences, which is exactly when the
\* terminal's cursor is hidden.
InHideCursor(s) == is_alive(s) /\ _thread[s] = "hide_flush"

InShowCursor(s) == pc \in {"restore_write", "restore_flush"} /\ _instances[idx] = s

C20_FlagTracksCursor ==
  \A s \in Spinners :
    ~(InHideCursor(s) \/ InShowCursor(s))
      => /\ _cursor_hidden[s] <=> count[s].hides = count[s].shows + 1
         /\ ~_cursor_hidden[s] <=> count[s].hides = count[s].shows
         /\ _cursor_hidden[s] <=> term[s].hidden

\* the flag is set in the second activation of a spinner, after one hide
\* and one show in the first
C20_Witness ==
  \E s \in Spinners :
    /\ _cursor_hidden[s] /\ _thread[s] = "loop_test"
    /\ count[s].hides = 2 /\ count[s].shows = 1
====
